---------------------------- MODULE Spec2Model ----------------------------
(***************************************************************************)
(* Model of services/compute/rust-wasm/src/lib.rs: the four statistics     *)
(* mean, pct_change, slope and pearson over Float64Array inputs.           *)
(*                                                                         *)
(* f64 is modelled by a binary floating-point format of the same shape as  *)
(* IEEE-754 binary64 (round to nearest, ties to even; gradual underflow;   *)
(* overflow to infinity; NaN), scaled down so that the model checker can   *)
(* enumerate it: MantBits significand bits instead of 53, and a smaller    *)
(* exponent range.  A finite value is an integer number m of quanta of     *)
(* 2^-FracBits; it is representable when |m| = k * 2^e with k < 2^MantBits *)
(* and |m| <= MaxM.  The sign of zero is not modelled (-0.0 == 0.0 in      *)
(* every comparison the code makes).                                       *)
(*                                                                         *)
(* Every value carries the IEEE-754 "inexact" status of its history in the *)
(* field ix: TRUE when some operation that produced it rounded,            *)
(* overflowed or was invalid.  ix is not read by any operation of the      *)
(* code; it is what "under exact arithmetic" refers to.                    *)
(***************************************************************************)
EXTENDS Integers, Sequences, FiniteSets, TLC

\* The scaled-down f64 format.
MantBits == 5
FracBits == 7
ExpShift == 10

RECURSIVE Pow2(_)
Pow2(e) == IF e <= 0 THEN 1 ELSE 2 * Pow2(e - 1)

Quantum == Pow2(FracBits)
MantLimit == Pow2(MantBits)
\* The largest finite value, in quanta (f64::MAX).
MaxM == (MantLimit - 1) * Pow2(ExpShift)

Abs(i) == IF i < 0 THEN -i ELSE i
Sgn(i) == IF i < 0 THEN -1 ELSE IF i > 0 THEN 1 ELSE 0

\* f64 values.
NaN == [k |-> "nan", m |-> 0, ix |-> FALSE]
Inf(s) == [k |-> "inf", m |-> s, ix |-> FALSE]
Fin(m) == [k |-> "fin", m |-> m, ix |-> FALSE]
Lit(i) == Fin(i * Quantum)

IsNaN(x) == x.k = "nan"
IsInf(x) == x.k = "inf"
IsFinite(x) == x.k = "fin"
\* The same f64 value (NaN equal to NaN), whatever the history.
Same(x, y) == x.k = y.k /\ x.m = y.m
Tainted(x, b) == [x EXCEPT !.ix = x.ix \/ b]

\* The unit in the last place for a magnitude of nu/de quanta: the smallest
\* power of two u with nu/de < 2^MantBits * u.
RECURSIVE Ulp(_, _, _)
Ulp(nu, de, u) == IF nu \div (de * u) < MantLimit THEN u ELSE Ulp(nu, de, 2 * u)

\* x/y rounded to the nearest integer, ties to even (x >= 0, y > 0).
RoundHalfEven(x, y) ==
    LET q == x \div y
        r == x % y
    IN IF 2 * r < y THEN q
       ELSE IF 2 * r > y THEN q + 1
       ELSE IF q % 2 = 0 THEN q ELSE q + 1

\* The f64 nearest to s * nu/de quanta (s the sign, nu >= 0, de > 0).
RoundQ(s, nu, de) ==
    LET u == Ulp(nu, de, 1)
        v == RoundHalfEven(nu, de * u) * u
    IN IF v > MaxM THEN Tainted(Inf(s), TRUE)
       ELSE Tainted(Fin(s * v), v * de # nu)

\* x + y
FAdd(x, y) ==
    LET t == x.ix \/ y.ix
    IN IF IsNaN(x) \/ IsNaN(y) THEN Tainted(NaN, t)
       ELSE IF IsInf(x) /\ IsInf(y)
            THEN IF x.m = y.m THEN Tainted(x, t) ELSE Tainted(NaN, TRUE)
       ELSE IF IsInf(x) THEN Tainted(x, t)
       ELSE IF IsInf(y) THEN Tainted(y, t)
       ELSE Tainted(RoundQ(Sgn(x.m + y.m), Abs(x.m + y.m), 1), t)

FNeg(x) == IF IsNaN(x) THEN x ELSE [x EXCEPT !.m = -x.m]

\* x - y
FSub(x, y) == FAdd(x, FNeg(y))

\* x * y
FMul(x, y) ==
    LET t == x.ix \/ y.ix
    IN IF IsNaN(x) \/ IsNaN(y) THEN Tainted(NaN, t)
       ELSE IF IsInf(x) \/ IsInf(y)
            THEN IF x.m = 0 \/ y.m = 0 THEN Tainted(NaN, TRUE)
                 ELSE Tainted(Inf(Sgn(x.m) * Sgn(y.m)), t)
       ELSE Tainted(RoundQ(Sgn(x.m) * Sgn(y.m), Abs(x.m) * Abs(y.m), Quantum), t)

\* x / y.  A zero divisor is taken as +0.0; the code never divides by zero.
FDiv(x, y) ==
    LET t == x.ix \/ y.ix
    IN IF IsNaN(x) \/ IsNaN(y) THEN Tainted(NaN, t)
       ELSE IF IsInf(x)
            THEN IF IsInf(y) THEN Tainted(NaN, TRUE)
                 ELSE Tainted(Inf(x.m * (IF y.m < 0 THEN -1 ELSE 1)), t)
       ELSE IF IsInf(y) THEN Tainted(Fin(0), t)
       ELSE IF y.m = 0
            THEN IF x.m = 0 THEN Tainted(NaN, TRUE) ELSE Tainted(Inf(Sgn(x.m)), TRUE)
       ELSE Tainted(RoundQ(Sgn(x.m) * Sgn(y.m), Abs(x.m) * Quantum, Abs(y.m)), t)

\* f64::abs
FAbs(x) == IF IsNaN(x) THEN x ELSE [x EXCEPT !.m = Abs(x.m)]

\* The integer square root of n >= 0, searched between lo and hi.
RECURSIVE ISqrt(_, _, _)
ISqrt(n, lo, hi) ==
    IF lo >= hi THEN lo
    ELSE LET mid == (lo + hi + 1) \div 2
         IN IF mid * mid <= n THEN ISqrt(n, mid, hi) ELSE ISqrt(n, lo, mid - 1)

\* f64::sqrt, correctly rounded.
FSqrt(x) ==
    IF IsNaN(x) THEN x
    ELSE IF x.m < 0 THEN Tainted(NaN, TRUE)
    ELSE IF IsInf(x) THEN x
    ELSE LET n == x.m * Quantum
             s0 == ISqrt(n, 0, 2 * Quantum * MantLimit)
             u == Ulp(s0, 1, 1)
             q0 == s0 \div u
             odd == (2 * q0 + 1) * u
             q == IF odd * odd < 4 * n THEN q0 + 1
                  ELSE IF odd * odd > 4 * n THEN q0
                  ELSE IF q0 % 2 = 0 THEN q0 ELSE q0 + 1
             v == q * u
         IN Tainted(Fin(v), x.ix \/ v * v # n)

\* x == y, x < y, x <= y as f64 compares them (false on NaN).
Num(x) == IF IsInf(x) THEN x.m * (MaxM + 1) ELSE x.m
FEq(x, y) == ~IsNaN(x) /\ ~IsNaN(y) /\ Num(x) = Num(y)
FLt(x, y) == ~IsNaN(x) /\ ~IsNaN(y) /\ Num(x) < Num(y)
FLe(x, y) == ~IsNaN(x) /\ ~IsNaN(y) /\ Num(x) <= Num(y)

\* `n as f64`
FromInt(n) == RoundQ(1, n * Quantum, 1)

\* A local that holds no value yet.
None == [k |-> "none", m |-> 0, ix |-> FALSE]

\* Float64Array::length
Length(arr) == Len(arr)

\* Float64Array::get_index: element i, counted from 0.  A read past the end of
\* a JavaScript typed array yields undefined, which converts to NaN.
GetIndex(arr, i) == IF i < Len(arr) THEN arr[i + 1] ELSE NaN

(***************************************************************************)
(* mean                                                                    *)
(***************************************************************************)
\* A faulty variant of MeanBody: the element after the one meant is added.
MeanBody_OffByOne(sum, values, i) == FAdd(sum, GetIndex(values, i + 1))

\* sum += values.get_index(i)
MeanBody(sum, values, i) == FAdd(sum, GetIndex(values, i))

\* sum after the iterations 0..k-1 of `for i in 0..len`.
RECURSIVE MeanSum(_, _)
MeanSum(values, k) ==
    IF k = 0 THEN Lit(0) ELSE MeanBody(MeanSum(values, k - 1), values, k - 1)

\* sum / (len as f64)
MeanResult(sum, len) == FDiv(sum, FromInt(len))

mean(values) ==
    LET len == Length(values)
    IN IF len = 0 THEN NaN ELSE MeanResult(MeanSum(values, len), len)

(***************************************************************************)
(* pct_change                                                              *)
(***************************************************************************)
\* A faulty variant of LastIndex: the element before the last is read.
LastIndex_OffByOne(len) == len - 2

\* The index of `last`: (len - 1) as u32.
LastIndex(len) == len - 1

\* ((last - first) / first.abs()) * 100.0, NaN when first == 0.0.
PctResult(first, last) ==
    IF FEq(first, Lit(0)) THEN NaN
    ELSE FMul(FDiv(FSub(last, first), FAbs(first)), Lit(100))

pct_change(values) ==
    LET len == Length(values)
    IN IF len < 2 THEN NaN
       ELSE PctResult(GetIndex(values, 0), GetIndex(values, LastIndex(len)))

(***************************************************************************)
(* slope                                                                   *)
(***************************************************************************)
\* A faulty variant of XMean: the 1.0 is not subtracted.
XMean_NoMinusOne(n_f) == FDiv(n_f, Lit(2))

\* x_mean = (n_f - 1.0) / 2.0
XMean(n_f) == FDiv(FSub(n_f, Lit(1)), Lit(2))

\* A faulty variant of SlopeBody: den accumulates dx * dy.
SlopeBody_DenFromDy(acc, values, x_mean, y_mean, i) ==
    LET x == FromInt(i)
        dx == FSub(x, x_mean)
        dy == FSub(GetIndex(values, i), y_mean)
    IN [num |-> FAdd(acc.num, FMul(dx, dy)), den |-> FAdd(acc.den, FMul(dx, dy))]

\* The body of the second loop: num += dx * dy; den += dx * dx.
SlopeBody(acc, values, x_mean, y_mean, i) ==
    LET x == FromInt(i)
        dx == FSub(x, x_mean)
        dy == FSub(GetIndex(values, i), y_mean)
    IN [num |-> FAdd(acc.num, FMul(dx, dy)), den |-> FAdd(acc.den, FMul(dx, dx))]

RECURSIVE SlopeAcc(_, _, _, _)
SlopeAcc(values, x_mean, y_mean, k) ==
    IF k = 0 THEN [num |-> Lit(0), den |-> Lit(0)]
    ELSE SlopeBody(SlopeAcc(values, x_mean, y_mean, k - 1), values, x_mean, y_mean, k - 1)

\* if den == 0.0 { NAN } else { num / den }
SlopeResult(acc) == IF FEq(acc.den, Lit(0)) THEN NaN ELSE FDiv(acc.num, acc.den)

\* num and den when the second loop of slope has run over all of values.
SlopeFinalAcc(values) ==
    LET n == Length(values)
        n_f == FromInt(n)
        y_mean == FDiv(MeanSum(values, n), n_f)
    IN SlopeAcc(values, XMean(n_f), y_mean, n)

slope(values) ==
    IF Length(values) < 2 THEN NaN ELSE SlopeResult(SlopeFinalAcc(values))

(***************************************************************************)
(* pearson                                                                 *)
(***************************************************************************)
\* Faulty variants of MinLen: the length of a, and the longer length.
MinLen_OfA(na, nb) == na
MinLen_Max(na, nb) == IF na >= nb THEN na ELSE nb

\* n = std::cmp::min(na, nb)
MinLen(na, nb) == IF na <= nb THEN na ELSE nb

\* The body of the first loop: mean_a += a[i]; mean_b += b[i].
PearsonMeanBody(acc, a, b, i) ==
    [mean_a |-> FAdd(acc.mean_a, GetIndex(a, i)),
     mean_b |-> FAdd(acc.mean_b, GetIndex(b, i))]

RECURSIVE PearsonSums(_, _, _)
PearsonSums(a, b, k) ==
    IF k = 0 THEN [mean_a |-> Lit(0), mean_b |-> Lit(0)]
    ELSE PearsonMeanBody(PearsonSums(a, b, k - 1), a, b, k - 1)

\* mean_a /= n_f; mean_b /= n_f
PearsonMeans(sums, n_f) ==
    [mean_a |-> FDiv(sums.mean_a, n_f), mean_b |-> FDiv(sums.mean_b, n_f)]

\* Faulty variants of PearsonBody: num accumulates da * da; den_a accumulates da * db.
PearsonBody_NumFromDa(acc, a, b, means, i) ==
    LET da == FSub(GetIndex(a, i), means.mean_a)
        db == FSub(GetIndex(b, i), means.mean_b)
    IN [num |-> FAdd(acc.num, FMul(da, da)),
        den_a |-> FAdd(acc.den_a, FMul(da, da)),
        den_b |-> FAdd(acc.den_b, FMul(db, db))]

PearsonBody_DenFromDb(acc, a, b, means, i) ==
    LET da == FSub(GetIndex(a, i), means.mean_a)
        db == FSub(GetIndex(b, i), means.mean_b)
    IN [num |-> FAdd(acc.num, FMul(da, db)),
        den_a |-> FAdd(acc.den_a, FMul(da, db)),
        den_b |-> FAdd(acc.den_b, FMul(db, db))]

\* The body of the second loop.
PearsonBody(acc, a, b, means, i) ==
    LET da == FSub(GetIndex(a, i), means.mean_a)
        db == FSub(GetIndex(b, i), means.mean_b)
    IN [num |-> FAdd(acc.num, FMul(da, db)),
        den_a |-> FAdd(acc.den_a, FMul(da, da)),
        den_b |-> FAdd(acc.den_b, FMul(db, db))]

RECURSIVE PearsonAcc(_, _, _, _)
PearsonAcc(a, b, means, k) ==
    IF k = 0 THEN [num |-> Lit(0), den_a |-> Lit(0), den_b |-> Lit(0)]
    ELSE PearsonBody(PearsonAcc(a, b, means, k - 1), a, b, means, k - 1)

\* A faulty variant of Denom: the sum of den_a and den_b under the root.
Denom_OfSum(acc) == FSqrt(FAdd(acc.den_a, acc.den_b))

\* denom = (den_a * den_b).sqrt()
Denom(acc) == FSqrt(FMul(acc.den_a, acc.den_b))

\* if denom == 0.0 { NAN } else { num / denom }
PearsonResult(acc) ==
    LET denom == Denom(acc)
    IN IF FEq(denom, Lit(0)) THEN NaN ELSE FDiv(acc.num, denom)

\* num, den_a and den_b when the second loop of pearson has run.
PearsonFinalAcc(a, b) ==
    LET n == MinLen(Length(a), Length(b))
        means == PearsonMeans(PearsonSums(a, b, n), FromInt(n))
    IN PearsonAcc(a, b, means, n)

pearson(a, b) ==
    IF MinLen(Length(a), Length(b)) = 0 THEN NaN
    ELSE PearsonResult(PearsonFinalAcc(a, b))

(***************************************************************************)
(* The calls as they run.  arrays is the host's heap of Float64Arrays, a   *)
(* call holds handles into it; calls[c] is the frame of call c: its        *)
(* position and its locals.  ret is the source line of the return taken    *)
(* (0 while the call runs), steps counts the steps the call has taken and  *)
(* oob records a get_index past the end of an array.                       *)
(***************************************************************************)
VARIABLES arrays, calls

vars == <<arrays, calls>>

\* The longest input array.
MaxLen == 3

Huge == Fin(MaxM)
\* Elements of the single-array inputs, and of the inputs a and b of pearson.
Vals == {Lit(-2), Lit(-1), Lit(0), Lit(1), Lit(2), Huge, Inf(-1), NaN}
AVals == {Lit(0), Lit(3), Lit(6)}
BVals == {Lit(0), Lit(1), Lit(3)}
\* Inputs a of pearson with elements that are not finite.
NonFiniteArrays == {<<NaN>>, <<Inf(1), Lit(3)>>, <<Lit(0), NaN, Lit(6)>>, <<Lit(6), Lit(3), Inf(-1)>>}

\* An array whose mean is not representable.
RoundingArrays == {<<Lit(3), Lit(1), Lit(3)>>}
\* Inputs of the concurrent calls.
ConcArrays == {<<>>, <<Lit(1), Lit(3)>>, <<Lit(3), Lit(0), Lit(1)>>, <<NaN, Lit(1)>>}

SeqsUpTo(S, L) == UNION {[1..k -> S] : k \in 0..L}

Functions == {"mean", "pct_change", "slope", "pearson"}

\* The frame of a call of fn on the arrays a (and b) that has not started.
NewFrame(fn, a, b) ==
    [fn |-> fn, a |-> a, b |-> b, pc |-> "enter", n |-> 0, i |-> 0,
     sum |-> None, x_mean |-> None, y_mean |-> None,
     mean_a |-> None, mean_b |-> None,
     num |-> None, den |-> None, den_a |-> None, den_b |-> None, denom |-> None,
     result |-> None, ret |-> 0, steps |-> 0, oob |-> FALSE]

\* return value, at source line `line`.
Return(f, value, line) ==
    [f EXCEPT !.pc = "done", !.result = value, !.ret = line, !.steps = @ + 1]

Step(f) == [f EXCEPT !.steps = @ + 1]

\* One call of one function on unshared inputs.
Init ==
    \/ \E fn \in Functions \ {"pearson"}, values \in SeqsUpTo(Vals, MaxLen) :
          /\ arrays = <<values, <<>>>>
          /\ calls = <<NewFrame(fn, 1, 1)>>
    \/ \E a \in SeqsUpTo(AVals, MaxLen) \cup NonFiniteArrays \cup RoundingArrays,
             b \in SeqsUpTo(BVals, MaxLen) :
          /\ arrays = <<a, b>>
          /\ calls = <<NewFrame("pearson", 1, 2)>>

\* Two calls at once, on arrays they may share.
InitConc ==
    /\ arrays \in [1..2 -> ConcArrays]
    /\ \E f1 \in Functions, f2 \in Functions, a1 \in 1..2, a2 \in 1..2, b1 \in 1..2, b2 \in 1..2 :
          /\ f1 # "pearson" => b1 = a1
          /\ f2 # "pearson" => b2 = a2
          /\ calls = <<NewFrame(f1, a1, b1), NewFrame(f2, a2, b2)>>

At(c, fn, pc) == calls[c].fn = fn /\ calls[c].pc = pc

\* A faulty variant of Update: the accumulators are static, one copy for all calls.
Update_StaticLocals(c, f) ==
    /\ calls' = [d \in DOMAIN calls |->
                    IF d = c THEN f
                    ELSE [calls[d] EXCEPT !.sum = f.sum, !.num = f.num, !.den = f.den,
                                          !.mean_a = f.mean_a, !.mean_b = f.mean_b,
                                          !.den_a = f.den_a, !.den_b = f.den_b]]
    /\ UNCHANGED arrays

\* Call c moves to the frame f; its locals are its own.
Update(c, f) ==
    /\ calls' = [calls EXCEPT ![c] = f]
    /\ UNCHANGED arrays

\* ---- mean ----
\* mean is called.
MeanEnterReady(c) ==
    /\ At(c, "mean", "enter")

MeanEnter(c) ==
    /\ MeanEnterReady(c)
    /\ LET f == calls[c]
           len == Length(arrays[f.a])
       IN IF len = 0 THEN Update(c, Return(f, NaN, 10))
          ELSE Update(c, Step([f EXCEPT !.pc = "sum", !.n = len, !.sum = Lit(0), !.i = 0]))

\* for i in 0..len has an iteration left.
MeanLoopReady(c) ==
    /\ At(c, "mean", "sum")
    /\ calls[c].i < calls[c].n

MeanLoop(c) ==
    /\ MeanLoopReady(c)
    /\ LET f == calls[c]
       IN Update(c, Step([f EXCEPT !.sum = MeanBody(f.sum, arrays[f.a], f.i),
                                      !.i = f.i + 1,
                                      !.oob = @ \/ f.i >= Len(arrays[f.a])]))

\* for i in 0..len is over.
MeanReturnReady(c) ==
    /\ At(c, "mean", "sum")
    /\ calls[c].i >= calls[c].n

MeanReturn(c) ==
    /\ MeanReturnReady(c)
    /\ LET f == calls[c]
       IN Update(c, Return(f, MeanResult(f.sum, f.n), 16))

\* ---- pct_change ----
\* pct_change is called.
PctEnterReady(c) ==
    /\ At(c, "pct_change", "enter")

PctEnter(c) ==
    /\ PctEnterReady(c)
    /\ LET f == calls[c]
           len == Length(arrays[f.a])
       IN IF len < 2 THEN Update(c, Return(f, NaN, 25))
          ELSE Update(c, Step([f EXCEPT !.pc = "read", !.n = len]))

\* len >= 2.
PctReturnReady(c) ==
    /\ At(c, "pct_change", "read")

PctReturn(c) ==
    /\ PctReturnReady(c)
    /\ LET f == calls[c]
           values == arrays[f.a]
           first == GetIndex(values, 0)
           last == GetIndex(values, LastIndex(f.n))
           g == [f EXCEPT !.oob = @ \/ LastIndex(f.n) >= Len(values) \/ LastIndex(f.n) < 0]
       IN Update(c, Return(g, PctResult(first, last),
                           IF FEq(first, Lit(0)) THEN 30 ELSE 32))

\* ---- slope ----
\* slope is called.
SlopeEnterReady(c) ==
    /\ At(c, "slope", "enter")

SlopeEnter(c) ==
    /\ SlopeEnterReady(c)
    /\ LET f == calls[c]
           n == Length(arrays[f.a])
       IN IF n < 2 THEN Update(c, Return(f, NaN, 41))
          ELSE Update(c, Step([f EXCEPT !.pc = "y_sum", !.n = n,
                                        !.x_mean = XMean(FromInt(n)),
                                        !.sum = Lit(0), !.i = 0]))

\* the first for i in 0..n has an iteration left.
SlopeSumLoopReady(c) ==
    /\ At(c, "slope", "y_sum")
    /\ calls[c].i < calls[c].n

SlopeSumLoop(c) ==
    /\ SlopeSumLoopReady(c)
    /\ LET f == calls[c]
       IN Update(c, Step([f EXCEPT !.sum = MeanBody(f.sum, arrays[f.a], f.i),
                                      !.i = f.i + 1,
                                      !.oob = @ \/ f.i >= Len(arrays[f.a])]))

\* the first for i in 0..n is over.
SlopeMidReady(c) ==
    /\ At(c, "slope", "y_sum")
    /\ calls[c].i >= calls[c].n

SlopeMid(c) ==
    /\ SlopeMidReady(c)
    /\ LET f == calls[c]
       IN Update(c, Step([f EXCEPT !.pc = "acc",
                                      !.y_mean = FDiv(f.sum, FromInt(f.n)),
                                      !.num = Lit(0), !.den = Lit(0), !.i = 0]))

\* the second for i in 0..n has an iteration left.
SlopeLoopReady(c) ==
    /\ At(c, "slope", "acc")
    /\ calls[c].i < calls[c].n

SlopeLoop(c) ==
    /\ SlopeLoopReady(c)
    /\ LET f == calls[c]
           acc == SlopeBody([num |-> f.num, den |-> f.den], arrays[f.a],
                            f.x_mean, f.y_mean, f.i)
       IN Update(c, Step([f EXCEPT !.num = acc.num, !.den = acc.den,
                                      !.i = f.i + 1,
                                      !.oob = @ \/ f.i >= Len(arrays[f.a])]))

\* the second for i in 0..n is over.
SlopeReturnReady(c) ==
    /\ At(c, "slope", "acc")
    /\ calls[c].i >= calls[c].n

SlopeReturn(c) ==
    /\ SlopeReturnReady(c)
    /\ LET f == calls[c]
           acc == [num |-> f.num, den |-> f.den]
       IN Update(c, Return(f, SlopeResult(acc),
                              IF FEq(f.den, Lit(0)) THEN 65 ELSE 67))

\* ---- pearson ----
\* pearson is called.
PearsonEnterReady(c) ==
    /\ At(c, "pearson", "enter")

PearsonEnter(c) ==
    /\ PearsonEnterReady(c)
    /\ LET f == calls[c]
           n == MinLen(Length(arrays[f.a]), Length(arrays[f.b]))
       IN IF n = 0 THEN Update(c, Return(f, NaN, 79))
          ELSE Update(c, Step([f EXCEPT !.pc = "means", !.n = n,
                                        !.mean_a = Lit(0), !.mean_b = Lit(0), !.i = 0]))

\* the first for i in 0..n has an iteration left.
PearsonMeanLoopReady(c) ==
    /\ At(c, "pearson", "means")
    /\ calls[c].i < calls[c].n

PearsonMeanLoop(c) ==
    /\ PearsonMeanLoopReady(c)
    /\ LET f == calls[c]
           acc == PearsonMeanBody([mean_a |-> f.mean_a, mean_b |-> f.mean_b],
                                  arrays[f.a], arrays[f.b], f.i)
       IN Update(c, Step([f EXCEPT !.mean_a = acc.mean_a, !.mean_b = acc.mean_b,
                                      !.i = f.i + 1,
                                      !.oob = @ \/ f.i >= Len(arrays[f.a])
                                                \/ f.i >= Len(arrays[f.b])]))

\* the first for i in 0..n is over.
PearsonMidReady(c) ==
    /\ At(c, "pearson", "means")
    /\ calls[c].i >= calls[c].n

PearsonMid(c) ==
    /\ PearsonMidReady(c)
    /\ LET f == calls[c]
           means == PearsonMeans([mean_a |-> f.mean_a, mean_b |-> f.mean_b], FromInt(f.n))
       IN Update(c, Step([f EXCEPT !.pc = "acc",
                                      !.mean_a = means.mean_a, !.mean_b = means.mean_b,
                                      !.num = Lit(0), !.den_a = Lit(0), !.den_b = Lit(0),
                                      !.i = 0]))

\* the second for i in 0..n has an iteration left.
PearsonLoopReady(c) ==
    /\ At(c, "pearson", "acc")
    /\ calls[c].i < calls[c].n

PearsonLoop(c) ==
    /\ PearsonLoopReady(c)
    /\ LET f == calls[c]
           acc == PearsonBody([num |-> f.num, den_a |-> f.den_a, den_b |-> f.den_b],
                              arrays[f.a], arrays[f.b],
                              [mean_a |-> f.mean_a, mean_b |-> f.mean_b], f.i)
       IN Update(c, Step([f EXCEPT !.num = acc.num, !.den_a = acc.den_a,
                                      !.den_b = acc.den_b, !.i = f.i + 1,
                                      !.oob = @ \/ f.i >= Len(arrays[f.a])
                                                \/ f.i >= Len(arrays[f.b])]))

\* the second for i in 0..n is over.
PearsonReturnReady(c) ==
    /\ At(c, "pearson", "acc")
    /\ calls[c].i >= calls[c].n

PearsonReturn(c) ==
    /\ PearsonReturnReady(c)
    /\ LET f == calls[c]
           acc == [num |-> f.num, den_a |-> f.den_a, den_b |-> f.den_b]
       IN Update(c, Return([f EXCEPT !.denom = Denom(acc)], PearsonResult(acc),
                              IF FEq(Denom(acc), Lit(0)) THEN 107 ELSE 109))

Next ==
    \/ \E c \in DOMAIN calls : MeanEnter(c)
    \/ \E c \in DOMAIN calls : MeanLoop(c)
    \/ \E c \in DOMAIN calls : MeanReturn(c)
    \/ \E c \in DOMAIN calls : PctEnter(c)
    \/ \E c \in DOMAIN calls : PctReturn(c)
    \/ \E c \in DOMAIN calls : SlopeEnter(c)
    \/ \E c \in DOMAIN calls : SlopeSumLoop(c)
    \/ \E c \in DOMAIN calls : SlopeMid(c)
    \/ \E c \in DOMAIN calls : SlopeLoop(c)
    \/ \E c \in DOMAIN calls : SlopeReturn(c)
    \/ \E c \in DOMAIN calls : PearsonEnter(c)
    \/ \E c \in DOMAIN calls : PearsonMeanLoop(c)
    \/ \E c \in DOMAIN calls : PearsonMid(c)
    \/ \E c \in DOMAIN calls : PearsonLoop(c)
    \/ \E c \in DOMAIN calls : PearsonReturn(c)

Spec == Init /\ [][Next]_vars

SpecConc == InitConc /\ [][Next]_vars

(***************************************************************************)
(* Properties.                                                             *)
(***************************************************************************)
Done(c) == calls[c].pc = "done"
Finished(c, fn) == calls[c].fn = fn /\ Done(c)
IsF64(x) == x.k \in {"fin", "inf", "nan"}
AllFinite(s, n) == \A j \in 1..n : IsFinite(s[j])
\* -1, 0 or 1 for a number, 2 for NaN.
SignOf(x) == IF IsNaN(x) THEN 2 ELSE Sgn(x.m)

\* ---- C1 ----
\* The left-to-right sum of the first k elements of s.
RECURSIVE LeftSum(_, _)
LeftSum(s, k) == IF k = 0 THEN Lit(0) ELSE FAdd(LeftSum(s, k - 1), s[k])

\* C1: mean(values) is NaN for an empty sequence, and otherwise the
\* left-to-right sum of the n elements divided by n; mean([x]) = x for finite x.
C1_MeanIsLeftSumOverLen ==
    \A c \in DOMAIN calls :
        Finished(c, "mean") =>
            LET values == arrays[calls[c].a]
                n == Len(values)
                result == calls[c].result
            IN /\ n = 0 => IsNaN(result)
               /\ n > 0 => Same(result, FDiv(LeftSum(values, n), FromInt(n)))
               /\ (n = 1 /\ IsFinite(values[1])) => Same(result, values[1])

C1_Witness ==
    \E c \in DOMAIN calls :
        /\ Finished(c, "mean")
        /\ Len(arrays[calls[c].a]) = 3
        /\ Same(calls[c].result, Lit(1))
        /\ arrays[calls[c].a][1] # arrays[calls[c].a][3]

\* ---- C2 ----
\* values with its element at (1-based) position j replaced by x.
Replaced(values, j, x) == [values EXCEPT ![j] = x]

\* The contract of pct_change without its sign clause: NaN for n < 2 or
\* first == 0, else ((last - first) / |first|) * 100, whatever the elements
\* between first and last are.
PctContract(c) ==
    LET values == arrays[calls[c].a]
        n == Len(values)
        result == calls[c].result
    IN /\ n < 2 => IsNaN(result)
       /\ (n >= 2 /\ FEq(values[1], Lit(0))) => IsNaN(result)
       /\ (n >= 2 /\ ~FEq(values[1], Lit(0))) =>
              Same(result, FMul(FDiv(FSub(values[n], values[1]), FAbs(values[1])), Lit(100)))
       /\ \A j \in 2..(n - 1), x \in Vals :
              Same(pct_change(Replaced(values, j, x)), result)

\* The result has the sign of last - first.
PctSign(c) ==
    LET values == arrays[calls[c].a]
    IN SignOf(calls[c].result) = SignOf(FSub(values[Len(values)], values[1]))

\* C2 as stated: the contract, and for every negative first element the result
\* has the sign of last - first.
C2_Original ==
    \A c \in DOMAIN calls :
        Finished(c, "pct_change") =>
            /\ PctContract(c)
            /\ (Len(arrays[calls[c].a]) >= 2 /\ FLt(arrays[calls[c].a][1], Lit(0)))
                   => PctSign(c)

\* C2 (amended): the contract, and for every finite negative first element the
\* result has the sign of last - first.
C2_PctChange ==
    \A c \in DOMAIN calls :
        Finished(c, "pct_change") =>
            /\ PctContract(c)
            /\ (/\ Len(arrays[calls[c].a]) >= 2
                /\ FLt(arrays[calls[c].a][1], Lit(0))
                /\ IsFinite(arrays[calls[c].a][1]))
                   => PctSign(c)

C2_Witness ==
    \E c \in DOMAIN calls :
        /\ Finished(c, "pct_change")
        /\ Len(arrays[calls[c].a]) = 3
        /\ Same(arrays[calls[c].a][1], Lit(-2))
        /\ Same(arrays[calls[c].a][3], Lit(-1))
        /\ Same(calls[c].result, Lit(50))

\* ---- C3 ----
\* values is an exact linear trend values[i] = c + d*i of finite numbers
\* (n >= 2), with d an f64.
IsLinear(values) ==
    /\ Len(values) >= 2
    /\ AllFinite(values, Len(values))
    /\ ~FSub(values[2], values[1]).ix
    /\ \A j \in 1..Len(values) :
           values[j].m = values[1].m + (j - 1) * (values[2].m - values[1].m)

\* The result is exactly the trend d = values[1] - values[0].
IsTrend(result, values) ==
    IsFinite(result) /\ result.m = values[2].m - values[1].m

\* C3 as stated: slope is NaN for n < 2 and exactly d for every exact linear
\* trend c + d*i.
C3_Original ==
    \A c \in DOMAIN calls :
        Finished(c, "slope") =>
            LET values == arrays[calls[c].a]
            IN /\ Len(values) < 2 => IsNaN(calls[c].result)
               /\ IsLinear(values) => IsTrend(calls[c].result, values)

\* C3 (amended): slope is NaN for n < 2, and exactly d for every exact linear
\* trend c + d*i on which no operation of the computation rounds or overflows.
C3_SlopeOfLinearTrend ==
    \A c \in DOMAIN calls :
        Finished(c, "slope") =>
            LET values == arrays[calls[c].a]
            IN /\ Len(values) < 2 => IsNaN(calls[c].result)
               /\ (IsLinear(values) /\ ~calls[c].result.ix)
                      => IsTrend(calls[c].result, values)

C3_Witness ==
    \E c \in DOMAIN calls :
        /\ Finished(c, "slope")
        /\ Len(arrays[calls[c].a]) = 3
        /\ IsLinear(arrays[calls[c].a])
        /\ ~calls[c].result.ix
        /\ Same(calls[c].result, Lit(-2))

\* ---- C4 ----
\* den as slope accumulates it over an array of length n.
DenOfLength(n) ==
    SlopeAcc([j \in 1..n |-> Lit(0)], XMean(FromInt(n)), Lit(0), n).den

\* C4: in slope, den is zero only for n = 1; for n >= 2 it is strictly
\* positive when the division is reached and the branch den == 0.0 (the
\* return at line 65) is never taken.
C4_SlopeDenPositive ==
    /\ \A c \in DOMAIN calls :
           (calls[c].fn = "slope" /\ calls[c].pc = "enter" /\ Len(arrays[calls[c].a]) >= 1) =>
               (FEq(DenOfLength(Len(arrays[calls[c].a])), Lit(0))
                    <=> Len(arrays[calls[c].a]) = 1)
    /\ \A c \in DOMAIN calls :
           (calls[c].fn = "slope" /\ Len(arrays[calls[c].a]) >= 2) =>
               /\ (calls[c].pc = "acc" /\ calls[c].i >= calls[c].n) =>
                      (IsFinite(calls[c].den) /\ calls[c].den.m > 0)
               /\ Done(c) => (calls[c].ret = 67 /\ FLt(Lit(0), calls[c].den))

C4_Witness ==
    \E c \in DOMAIN calls :
        /\ Finished(c, "slope")
        /\ Len(arrays[calls[c].a]) = 3
        /\ calls[c].ret = 67
        /\ Same(calls[c].den, Lit(2))

\* ---- pearson ----
Take(s, n) == [j \in 1..(IF n <= Len(s) THEN n ELSE Len(s)) |-> s[j]]
Window(c) == MinLen(Len(arrays[calls[c].a]), Len(arrays[calls[c].b]))
IsConstant(s, n) == \A j \in 1..n : Same(s[j], s[1])
\* den_a * den_b as the code computes it before the square root.
DenProduct(c) == FMul(calls[c].den_a, calls[c].den_b)
\* The window is finite and every operation up to den_a * den_b was exact.
ExactRun(c) ==
    /\ AllFinite(arrays[calls[c].a], Window(c))
    /\ AllFinite(arrays[calls[c].b], Window(c))
    /\ ~calls[c].num.ix
    /\ ~DenProduct(c).ix

\* ---- C5 ----
\* Elements that may follow the window of the longer array.
Extra == {Lit(1), NaN}

\* C5: pearson(a, b) depends only on the first n = min(len(a), len(b))
\* elements of each array: it is the result on the two windows, and appending
\* to the longer array or replacing its elements past the window changes
\* nothing; arrays of unequal lengths give a value like any others.
C5_PearsonTruncation ==
    \A c \in DOMAIN calls :
        Finished(c, "pearson") =>
            LET a == arrays[calls[c].a]
                b == arrays[calls[c].b]
                n == Window(c)
                result == calls[c].result
            IN /\ IsF64(result) /\ ~calls[c].oob
               /\ Same(result, pearson(Take(a, n), Take(b, n)))
               /\ Len(a) >= Len(b) =>
                      \A x \in Extra :
                          /\ Same(pearson(Append(a, x), b), result)
                          /\ \A j \in (n + 1)..Len(a) :
                                 Same(pearson(Replaced(a, j, x), b), result)
               /\ Len(b) >= Len(a) =>
                      \A x \in Extra :
                          /\ Same(pearson(a, Append(b, x)), result)
                          /\ \A j \in (n + 1)..Len(b) :
                                 Same(pearson(a, Replaced(b, j, x)), result)

C5_Witness ==
    \E c \in DOMAIN calls :
        /\ Finished(c, "pearson")
        /\ Len(arrays[calls[c].a]) = 3
        /\ Len(arrays[calls[c].b]) = 2
        /\ Same(calls[c].result, Lit(-1))

\* ---- C6 ----
\* C6: pearson is NaN when either array is empty and when denom is zero, and
\* num / denom otherwise; on a finite window where no operation up to
\* den_a * den_b rounds, denom is zero exactly when a or b is constant over
\* the window.
C6_PearsonNaN ==
    \A c \in DOMAIN calls :
        Finished(c, "pearson") =>
            LET a == arrays[calls[c].a]
                b == arrays[calls[c].b]
                n == Window(c)
                f == calls[c]
            IN /\ n = 0 => (IsNaN(f.result) /\ f.ret = 79)
               /\ n > 0 =>
                    /\ Same(f.denom, FSqrt(DenProduct(c)))
                    /\ FEq(f.denom, Lit(0)) => (IsNaN(f.result) /\ f.ret = 107)
                    /\ ~FEq(f.denom, Lit(0)) =>
                           (Same(f.result, FDiv(f.num, f.denom)) /\ f.ret = 109)
                    /\ ExactRun(c) =>
                           (FEq(f.denom, Lit(0)) <=> (IsConstant(a, n) \/ IsConstant(b, n)))

C6_Witness ==
    \E c \in DOMAIN calls :
        /\ Finished(c, "pearson")
        /\ Window(c) = 3
        /\ ExactRun(c)
        /\ IsConstant(arrays[calls[c].b], 3)
        /\ ~IsConstant(arrays[calls[c].a], 3)
        /\ calls[c].ret = 107

\* ---- C7 ----
\* Over the window, b[i] = k*a[i] + t for some k and t, and a is not constant.
LinearlyRelated(a, b, n) ==
    /\ n >= 2
    /\ AllFinite(a, n) /\ AllFinite(b, n)
    /\ ~IsConstant(a, n)
    /\ \A i \in 1..n, j \in 1..n :
           (b[i].m - b[1].m) * (a[j].m - a[1].m) = (b[j].m - b[1].m) * (a[i].m - a[1].m)

\* The sign of k.
SignOfK(a, b, n) ==
    LET j == CHOOSE j \in 1..n : a[j].m # a[1].m
    IN Sgn((b[j].m - b[1].m) * (a[j].m - a[1].m))

\* The result for windows related by b = k*a + t: 1, -1 or NaN with the sign
\* of k.
UnitCorrelation(c) ==
    LET k == SignOfK(arrays[calls[c].a], arrays[calls[c].b], Window(c))
        result == calls[c].result
    IN IF k = 0 THEN IsNaN(result) ELSE Same(result, Lit(k))

\* C7 as stated: for every non-constant a of length n >= 2 and b = k*a + t,
\* pearson is 1 for k > 0, -1 for k < 0 and NaN for k = 0.
C7_Original ==
    \A c \in DOMAIN calls :
        (Finished(c, "pearson")
            /\ LinearlyRelated(arrays[calls[c].a], arrays[calls[c].b], Window(c)))
        => UnitCorrelation(c)

\* C7 (amended): the same, on the windows where no operation up to
\* den_a * den_b rounds; there num^2 = den_a * den_b and num has the sign of k.
C7_PearsonOfLinearRelation ==
    \A c \in DOMAIN calls :
        (Finished(c, "pearson")
            /\ LinearlyRelated(arrays[calls[c].a], arrays[calls[c].b], Window(c))
            /\ ExactRun(c))
        => /\ UnitCorrelation(c)
           /\ calls[c].num.m * calls[c].num.m = calls[c].den_a.m * calls[c].den_b.m
           /\ Sgn(calls[c].num.m)
                  = SignOfK(arrays[calls[c].a], arrays[calls[c].b], Window(c))

C7_Witness ==
    \E c \in DOMAIN calls :
        /\ Finished(c, "pearson")
        /\ Window(c) = 3
        /\ LinearlyRelated(arrays[calls[c].a], arrays[calls[c].b], 3)
        /\ ExactRun(c)
        /\ Same(calls[c].result, Lit(-1))

\* ---- C8 ----
\* C8: den_a and den_b are never negative; on a finite window where no
\* operation up to den_a * den_b rounds, num^2 <= den_a * den_b and the result
\* the code returns, unclamped, is NaN or within [-1, 1].
C8_PearsonRange ==
    \A c \in DOMAIN calls :
        Finished(c, "pearson") /\ Window(c) > 0 =>
            LET f == calls[c]
            IN /\ IsNaN(f.den_a) \/ FLe(Lit(0), f.den_a)
               /\ IsNaN(f.den_b) \/ FLe(Lit(0), f.den_b)
               /\ ExactRun(c) =>
                      /\ f.num.m * f.num.m <= f.den_a.m * f.den_b.m
                      /\ \/ IsNaN(f.result)
                         \/ FLe(Lit(-1), f.result) /\ FLe(f.result, Lit(1))

C8_Witness ==
    \E c \in DOMAIN calls :
        /\ Finished(c, "pearson")
        /\ Window(c) = 3
        /\ ExactRun(c)
        /\ Same(calls[c].result, Fin(-(Quantum \div 2)))

\* ---- C9 ----
ReturnLines == {10, 16, 25, 30, 32, 41, 65, 67, 79, 107, 109}

\* Some step of call c can be taken.
CanStep(c) ==
    \/ MeanEnterReady(c) \/ MeanLoopReady(c) \/ MeanReturnReady(c)
    \/ PctEnterReady(c) \/ PctReturnReady(c)
    \/ SlopeEnterReady(c) \/ SlopeSumLoopReady(c) \/ SlopeMidReady(c)
    \/ SlopeLoopReady(c) \/ SlopeReturnReady(c)
    \/ PearsonEnterReady(c) \/ PearsonMeanLoopReady(c) \/ PearsonMidReady(c)
    \/ PearsonLoopReady(c) \/ PearsonReturnReady(c)

\* C9: every call is total.  It never reads outside 0..len-1 of an input, its
\* loop index stays within the window, it has taken at most 2n + 3 steps (n
\* the window length, every step counted), it can take a step as long as it
\* has not returned, and once it has returned it holds exactly one result, a
\* number or NaN, and takes no further step.
C9_Total ==
    \A c \in DOMAIN calls :
        LET f == calls[c]
        IN /\ ~f.oob
           /\ f.i <= f.n /\ f.n <= Window(c)
           /\ f.steps <= 2 * Window(c) + 3
           /\ ~Done(c) => (CanStep(c) /\ f.result = None /\ f.ret = 0)
           /\ Done(c) => (~CanStep(c) /\ IsF64(f.result) /\ f.ret \in ReturnLines)

C9_Witness ==
    \E c \in DOMAIN calls :
        /\ Finished(c, "pearson")
        /\ Len(arrays[calls[c].a]) = 3
        /\ Len(arrays[calls[c].b]) = 2
        /\ \E j \in 1..3 : ~IsFinite(arrays[calls[c].a][j])
        /\ calls[c].steps = 7
        /\ IsNaN(calls[c].result)

\* ---- C10 ----
\* The result of fn called alone on the arrays a and b.
RunAlone(fn, a, b) ==
    CASE fn = "mean" -> mean(a)
      [] fn = "pct_change" -> pct_change(a)
      [] fn = "slope" -> slope(a)
      [] fn = "pearson" -> pearson(a, b)

ResultsAsAlone ==
    \A c \in DOMAIN calls :
        Done(c) => Same(calls[c].result,
                        RunAlone(calls[c].fn, arrays[calls[c].a], arrays[calls[c].b]))

\* A step changes the frame of one call only, and no array.
StepIsLocal ==
    /\ arrays' = arrays
    /\ \A c \in DOMAIN calls, d \in DOMAIN calls :
           (c # d /\ calls'[c] # calls[c]) => calls'[d] = calls[d]

\* C10: with the steps of concurrent calls interleaved in any order, every call
\* returns the result it returns when run alone on the same inputs; a step
\* touches only the locals of its own call, and the input arrays never change.
C10_Reentrant == [](ResultsAsAlone) /\ [][StepIsLocal]_vars

C10_Witness ==
    /\ Finished(1, "slope")
    /\ calls[2].fn = "slope" /\ calls[2].pc = "acc" /\ calls[2].i = 1
    /\ calls[1].a = calls[2].a
    /\ IsFinite(calls[1].result)

=============================================================================
